---- MODULE Spec2Model ----
(***************************************************************************)
(* Model of "about me/optimize.js": the page script that defers images     *)
(* with an IntersectionObserver, tracks image load and error outcomes,     *)
(* adapts to the connection quality, prefetches pages on hover and reports *)
(* oversized images on a development host.                                 *)
(*                                                                         *)
(* The browser is the environment: it parses the document (readyState      *)
(* loading -> interactive -> complete), fetches images, delivers           *)
(* intersection entries, connection changes, hovers, scrolls and frames.   *)
(* Every handler of the script is one action.                              *)
(***************************************************************************)
EXTENDS Integers, Sequences, FiniteSets

\* ---------------------------------------------------------------- bounds
NumImgs == 2
NumLinks == 2
MaxBatch == 2
MaxHover == 3
MaxPending == 2
CountCap == 3

Imgs == 1..NumImgs
Links == 1..NumLinks

\* ---------------------------------------------------------------- values
NoAttr == "<absent>"
EmptyStr == ""
RealUrls == {"a.jpg", "b.webp"}
EffectiveTypes == {"slow-2g", "2g", "3g", "4g"}
NoConnection == "<no navigator.connection>"
Hostnames == {"localhost", "127.0.0.1", "example.com"}

Min(a, b) == IF a < b THEN a ELSE b
Bump(n) == Min(n + 1, CountCap)

VARIABLES
  \* the document and the environment the script inspects
  readyState,     \* document.readyState
  hasIO,          \* 'IntersectionObserver' in window
  hasTouch,       \* 'ontouchstart' in window
  hasAOS,         \* window.AOS
  isMobileUA,     \* the user agent matches the mobile pattern
  effectiveType,  \* navigator.connection.effectiveType, or NoConnection
  hostname,       \* window.location.hostname
  \* the images
  lazy,           \* img has loading="lazy"
  src,            \* img.src attribute
  dataSrc,        \* img data-src attribute
  fetch,          \* state of the image's current request
  natural,        \* per URL: naturalWidth * naturalHeight of the resource
  display,        \* width * height as rendered
  classes,        \* img.classList
  \* the links
  href,           \* a.href
  headLinks,      \* link rel=prefetch elements appended to document.head
  \* the script
  scriptRan,      \* the IIFE has been executed
  styleAdded,     \* the style element is in document.head
  dclListeners,   \* DOMContentLoaded listeners, in registration order
  observed,       \* targets of imageObserver
  trackL,         \* images with the load and error listeners of progressiveImageLoad
  sizeL,          \* images with the load listener of checkImageSizes
  winLoadL,       \* window 'load' listener of checkImageSizes registered
  largeImages,    \* the closure variable of checkImageSizes
  changeL,        \* connection 'change' listener registered
  pendingChange,  \* 'change' events dispatched by the browser, not yet handled
  lowBandwidth,   \* document.body has class low-bandwidth
  hoverL,         \* links whose once-listener for mouseenter is still registered
  scrollL,        \* window 'scroll' listener registered
  touchL,         \* document 'touchstart' listener registered
  ticking,        \* the closure variable of optimizeTouchInteraction
  rafPending,     \* animation-frame callbacks requested and not yet run
  aosCalls,       \* the option objects AOS.init was called with
  warns,          \* per image: the URLs passed to console.warn
  lowLogs,        \* console.log calls 'Low bandwidth detected'
  reports,        \* the console.group reports of checkImageSizes
  threw,          \* an uncaught exception left the script
  \* history of the run
  initRuns,       \* how often init() has run
  assigns,        \* per image: how often img.src was assigned from data-src
  loadedAdds,     \* per image: how often classList.add('loaded') ran
  okAfterReg,     \* per image: successful loads completed after init()
  completeAtReg,  \* images whose complete flag was true when init() looked
  frameRan,       \* an animation-frame callback of the scroll listener has run
  hovers,         \* per link: mouseenter events since init()
  hintsBy,        \* per link: prefetch links appended by its listener
  intersected,    \* images an intersecting entry has been delivered for
  hit             \* images the last step delivered an intersecting entry for

docVars == <<readyState, hasIO, hasTouch, hasAOS, isMobileUA, hostname>>
imgVars == <<lazy, src, dataSrc, fetch, natural, display, classes>>
linkVars == <<href, headLinks, hoverL, hovers, hintsBy>>
obsVars == <<observed, assigns, intersected>>
trackVars == <<trackL, loadedAdds, okAfterReg, completeAtReg>>
diagVars == <<sizeL, winLoadL, largeImages, reports>>
netVars == <<effectiveType, changeL, pendingChange, lowBandwidth, lowLogs>>
scrollVars == <<scrollL, touchL, ticking, rafPending, frameRan>>
scriptVars == <<scriptRan, styleAdded, dclListeners, aosCalls, warns, threw, initRuns>>

vars == <<docVars, imgVars, linkVars, obsVars, trackVars, diagVars, netVars,
          scrollVars, scriptVars, hit>>

\* ------------------------------------------------------ browser semantics
\* img.complete: true when there is no src, when the image is completely
\* available and when the request is broken.
Complete(f) == f \in {"none", "ok", "failed"}

\* JavaScript truthiness of a dataset value: undefined and '' are falsy.
Truthy(v) == v \notin {NoAttr, EmptyStr}

\* the attribute selector [src*=".png"], [src*=".jpg"]
HasPngOrJpg(u) == u \in {"a.jpg"}

\* the attribute selector a[href*=".html"]
HasHtml(u) == u \in {"p1.html", "p2.html"}

\* ------------------------------------------------------------ the script
\* HandleEntry without removeAttribute('data-src')
HandleEntryKeepsMarker(entry, st) ==
  IF entry.isIntersecting
  THEN LET img == entry.target
           s1 == IF Truthy(st.dataSrc[img])
                 THEN [st EXCEPT !.src[img] = st.dataSrc[img],
                                 !.fetch[img] = "loading",
                                 !.assigns[img] = Bump(@)]
                 ELSE st
       IN [s1 EXCEPT !.observed = @ \ {img}]
  ELSE st

\* HandleEntry without the test of img.dataset.src
HandleEntryUnguarded(entry, st) ==
  IF entry.isIntersecting
  THEN LET img == entry.target
       IN [st EXCEPT !.src[img] = st.dataSrc[img],
                     !.dataSrc[img] = NoAttr,
                     !.fetch[img] = "loading",
                     !.assigns[img] = Bump(@),
                     !.observed = @ \ {img}]
  ELSE st

\* HandleEntry without the test of entry.isIntersecting
HandleEntryAnyEntry(entry, st) ==
  LET img == entry.target
      s1 == IF Truthy(st.dataSrc[img])
            THEN [st EXCEPT !.src[img] = st.dataSrc[img],
                            !.dataSrc[img] = NoAttr,
                            !.fetch[img] = "loading",
                            !.assigns[img] = Bump(@)]
            ELSE st
  IN [s1 EXCEPT !.observed = @ \ {img}]

\* HandleEntry without observer.unobserve(img)
HandleEntryStaysObserved(entry, st) ==
  IF entry.isIntersecting
  THEN LET img == entry.target
       IN IF Truthy(st.dataSrc[img])
          THEN [st EXCEPT !.src[img] = st.dataSrc[img],
                          !.dataSrc[img] = NoAttr,
                          !.fetch[img] = "loading",
                          !.assigns[img] = Bump(@)]
          ELSE st
  ELSE st

\* optimize.js 13-22: one entry of the imageObserver callback, applied to
\* the DOM state st = [src, dataSrc, fetch, observed, assigns].
HandleEntry(entry, st) ==
  IF entry.isIntersecting
  THEN LET img == entry.target
           s1 == IF Truthy(st.dataSrc[img])
                 THEN [st EXCEPT !.src[img] = st.dataSrc[img],
                                 !.dataSrc[img] = NoAttr,
                                 !.fetch[img] = "loading",
                                 !.assigns[img] = Bump(@)]
                 ELSE st
       IN [s1 EXCEPT !.observed = @ \ {img}]
  ELSE st

\* optimize.js 12-23: entries.forEach
RECURSIVE imageObserverCallback(_, _, _)
imageObserverCallback(entries, k, st) ==
  IF k > Len(entries) THEN st
  ELSE imageObserverCallback(entries, k + 1, HandleEntry(entries[k], st))

\* optimize.js 31: document.querySelectorAll('img[data-src]')
lazyImages == {i \in Imgs : dataSrc[i] # NoAttr}

\* optimize.js 30-33: the DOMContentLoaded listener that registers the images
ObserveLazyImages == observed' = observed \cup lazyImages

\* optimize.js 40: the user-agent test
isMobile == isMobileUA

\* isSlowConnection without the comparison with '3g'
isSlowConnectionNo3g ==
  effectiveType # NoConnection /\ effectiveType \in {"slow-2g", "2g"}

\* optimize.js 41-44
isSlowConnection ==
  effectiveType # NoConnection /\ effectiveType \in {"slow-2g", "2g", "3g"}

\* the AOS listener without the test isMobile || isSlowConnection
ConfigureAOSAlways ==
  aosCalls' = IF hasAOS
              THEN Append(aosCalls, [duration |-> 600, once |-> TRUE,
                                     disable |-> isSlowConnection, offset |-> 50])
              ELSE aosCalls

\* optimize.js 37-57: the DOMContentLoaded listener that configures AOS
ConfigureAOS ==
  aosCalls' = IF hasAOS /\ (isMobile \/ isSlowConnection)
              THEN Append(aosCalls, [duration |-> 600, once |-> TRUE,
                                     disable |-> isSlowConnection, offset |-> 50])
              ELSE aosCalls

\* optimize.js 61: document.querySelectorAll('img[loading="lazy"]')
TrackedImages == {i \in Imgs : lazy[i]}

\* progressiveImageLoad without the img.complete branch
progressiveImageLoadNoCompleteCheck ==
  /\ classes' = classes
  /\ loadedAdds' = loadedAdds
  /\ trackL' = trackL \cup TrackedImages
  /\ completeAtReg' = {i \in Imgs : Complete(fetch[i])}

\* optimize.js 60-79
progressiveImageLoad ==
  LET images == TrackedImages
      done == {i \in images : Complete(fetch[i])}
  IN /\ classes' = [i \in Imgs |-> IF i \in done THEN classes[i] \cup {"loaded"}
                                   ELSE classes[i]]
     /\ loadedAdds' = [i \in Imgs |-> IF i \in done THEN Bump(loadedAdds[i])
                                      ELSE loadedAdds[i]]
     /\ trackL' = trackL \cup (images \ done)
     /\ completeAtReg' = {i \in Imgs : Complete(fetch[i])}

\* optimize.js 82-98
optimizeTouchInteraction ==
  /\ touchL' = (touchL \/ hasTouch)
  /\ scrollL' = TRUE
  /\ ticking' = FALSE

\* adaptToNetworkCondition without the test 'connection' in navigator
HasConnectionUnchecked == TRUE

\* optimize.js 102: 'connection' in navigator
HasConnection == effectiveType # NoConnection

\* optimize.js 110 and 119: the test for a slow connection
IsLowBandwidth(t) == t = "slow-2g" \/ t = "2g"

\* optimize.js 106: connection.addEventListener raises a TypeError when it
\* is reached without a connection object
AdaptThrows == HasConnection /\ effectiveType = NoConnection

\* optimize.js 101-123
adaptToNetworkCondition ==
  IF HasConnection
  THEN /\ changeL' = TRUE
       /\ lowBandwidth' = IF IsLowBandwidth(effectiveType) THEN TRUE ELSE lowBandwidth
  ELSE UNCHANGED <<changeL, lowBandwidth>>

\* optimize.js 128: document.querySelectorAll('a[href*=".html"]')
navLinks == {l \in Links : HasHtml(href[l])}

\* optimize.js 126-140
prefetchCriticalResources == hoverL' = hoverL \cup navLinks

\* checkImageSizes without the hostname test
IsDevHostAlways == TRUE

\* optimize.js 144: the development-host test
IsDevHost == hostname = "localhost" \/ hostname = "127.0.0.1"

\* optimize.js 143-178
checkImageSizes ==
  IF IsDevHost
  THEN /\ sizeL' = sizeL \cup {i \in Imgs : HasPngOrJpg(src[i])}
       /\ winLoadL' = TRUE
  ELSE UNCHANGED <<sizeL, winLoadL>>

\* optimize.js 181-187.  An exception in one call skips the calls after it.
init ==
  /\ initRuns' = Bump(initRuns)
  /\ progressiveImageLoad
  /\ optimizeTouchInteraction
  /\ adaptToNetworkCondition
  /\ IF AdaptThrows
     THEN /\ threw' = TRUE
          /\ UNCHANGED <<hoverL, sizeL, winLoadL>>
     ELSE /\ prefetchCriticalResources
          /\ checkImageSizes
          /\ UNCHANGED threw

initVars == <<initRuns, classes, loadedAdds, trackL, completeAtReg, touchL, scrollL,
              ticking, changeL, lowBandwidth, threw, hoverL, sizeL, winLoadL>>

inputVars == <<hasIO, hasTouch, hasAOS, isMobileUA, hostname, lazy, natural, display, href>>

\* ------------------------------------------------------------ the actions
\* optimize.js 6-229: the script is executed.  It may run while the document
\* is still being parsed or after that (async or injected script).
ScriptRun ==
  /\ ~scriptRan
  /\ scriptRan' = TRUE
  /\ dclListeners' = (IF hasIO THEN {"observe"} ELSE {}) \cup {"aos"}
                       \cup (IF readyState = "loading" THEN {"init"} ELSE {})
  /\ IF readyState = "loading" THEN UNCHANGED initVars ELSE init
  /\ styleAdded' = ~threw'
  /\ hit' = {}
  /\ UNCHANGED <<inputVars, readyState, effectiveType, src, dataSrc, fetch, headLinks,
                 observed, largeImages, pendingChange, rafPending, frameRan, aosCalls, warns,
                 lowLogs, reports, assigns, okAfterReg, hovers, hintsBy, intersected>>

\* The document has been parsed: the browser fires DOMContentLoaded and the
\* listeners registered at optimize.js 30, 37 and 191 run.
DOMContentLoaded ==
  /\ readyState = "loading"
  /\ readyState' = "interactive"
  /\ IF "observe" \in dclListeners THEN ObserveLazyImages ELSE UNCHANGED observed
  /\ IF "aos" \in dclListeners THEN ConfigureAOS ELSE UNCHANGED aosCalls
  /\ IF "init" \in dclListeners THEN init ELSE UNCHANGED initVars
  /\ hit' = {}
  /\ UNCHANGED <<inputVars, effectiveType, src, dataSrc, fetch, headLinks, scriptRan,
                 styleAdded, dclListeners, largeImages, pendingChange, rafPending, frameRan,
                 warns, lowLogs, reports, assigns, okAfterReg, hovers, hintsBy,
                 intersected>>

\* optimize.js 166-176: the page has finished loading; the browser waits for
\* the images it is fetching, except the ones it loads lazily.
WindowLoad ==
  /\ readyState = "interactive"
  /\ \A i \in Imgs : fetch[i] = "loading" => lazy[i]
  /\ readyState' = "complete"
  /\ reports' = IF winLoadL /\ Len(largeImages) > 0
                THEN Append(reports, largeImages) ELSE reports
  /\ hit' = {}
  /\ UNCHANGED <<inputVars, effectiveType, src, dataSrc, fetch, classes, headLinks,
                 scriptRan, styleAdded, dclListeners, observed, trackL, sizeL, winLoadL,
                 largeImages, changeL, pendingChange, lowBandwidth, hoverL, scrollL,
                 touchL, ticking, rafPending, frameRan, aosCalls, warns, lowLogs, threw, initRuns,
                 assigns, loadedAdds, okAfterReg, completeAtReg, hovers, hintsBy,
                 intersected>>

\* optimize.js 68-70 and 150-162: an image finishes loading and its load
\* listeners run.
ImgLoad(i) ==
  /\ fetch[i] = "loading"
  /\ fetch' = [fetch EXCEPT ![i] = "ok"]
  /\ classes' = IF i \in trackL THEN [classes EXCEPT ![i] = @ \cup {"loaded"}]
                ELSE classes
  /\ loadedAdds' = IF i \in trackL THEN [loadedAdds EXCEPT ![i] = Bump(@)]
                   ELSE loadedAdds
  /\ largeImages' =
       LET displaySize == display[i]
           naturalSize == natural[src[i]]
       IN IF i \in sizeL /\ naturalSize > displaySize * 2
          THEN Append(largeImages, [src |-> src[i], natural |-> naturalSize,
                                    display |-> displaySize])
          ELSE largeImages
  /\ okAfterReg' = IF initRuns > 0 THEN [okAfterReg EXCEPT ![i] = Bump(@)]
                   ELSE okAfterReg
  /\ hit' = {}
  /\ UNCHANGED <<inputVars, readyState, effectiveType, src, dataSrc, headLinks,
                 scriptRan, styleAdded, dclListeners, observed, trackL, sizeL, winLoadL,
                 changeL, pendingChange, lowBandwidth, hoverL, scrollL, touchL, ticking,
                 rafPending, frameRan, aosCalls, warns, lowLogs, reports, threw, initRuns, assigns,
                 completeAtReg, hovers, hintsBy, intersected>>

\* optimize.js 73-76: the fetch of an image fails and its error listener runs.
ImgError(i) ==
  /\ fetch[i] = "loading"
  /\ fetch' = [fetch EXCEPT ![i] = "failed"]
  /\ classes' = IF i \in trackL THEN [classes EXCEPT ![i] = @ \cup {"error"}]
                ELSE classes
  /\ warns' = IF i \in trackL /\ Len(warns[i]) < CountCap
              THEN [warns EXCEPT ![i] = Append(@, src[i])] ELSE warns
  /\ hit' = {}
  /\ UNCHANGED <<inputVars, readyState, effectiveType, src, dataSrc, headLinks,
                 scriptRan, styleAdded, dclListeners, observed, trackL, sizeL, winLoadL,
                 largeImages, changeL, pendingChange, lowBandwidth, hoverL, scrollL,
                 touchL, ticking, rafPending, frameRan, aosCalls, lowLogs, reports, threw,
                 initRuns, assigns, loadedAdds, okAfterReg, completeAtReg, hovers,
                 hintsBy, intersected>>

\* the batches of entries the browser may hand to the callback in one call
Batches(targets) ==
  UNION {[1..n -> [target : targets, isIntersecting : BOOLEAN]] : n \in 1..MaxBatch}

\* the targets of the entries with isIntersecting (optimize.js 14-15)
IntersectingTargets(entries) ==
  {entries[k].target : k \in {n \in 1..Len(entries) : entries[n].isIntersecting}}

\* optimize.js 12-27: the browser delivers entries for observed images.
Intersect(entries) ==
  LET st == imageObserverCallback(entries, 1,
              [src |-> src, dataSrc |-> dataSrc, fetch |-> fetch,
               observed |-> observed, assigns |-> assigns])
  IN /\ src' = st.src
     /\ dataSrc' = st.dataSrc
     /\ fetch' = st.fetch
     /\ observed' = st.observed
     /\ assigns' = st.assigns
     /\ intersected' = intersected \cup IntersectingTargets(entries)
     /\ hit' = IntersectingTargets(entries)
     /\ UNCHANGED <<inputVars, readyState, effectiveType, classes, headLinks,
                    scriptRan, styleAdded, dclListeners, trackL, sizeL, winLoadL,
                    largeImages, changeL, pendingChange, lowBandwidth, hoverL, scrollL,
                    touchL, ticking, rafPending, frameRan, aosCalls, warns, lowLogs, reports,
                    threw, initRuns, loadedAdds, okAfterReg, completeAtReg, hovers,
                    hintsBy>>

Deliver == \E entries \in Batches(observed) : Intersect(entries)

\* The connection quality changes and the browser dispatches a change event.
ConnChange ==
  /\ HasConnection
  /\ pendingChange < MaxPending
  /\ \E t \in EffectiveTypes \ {effectiveType} : effectiveType' = t
  /\ pendingChange' = pendingChange + 1
  /\ hit' = {}
  /\ UNCHANGED <<inputVars, readyState, imgVars, headLinks, hoverL, hovers, hintsBy,
                 obsVars, trackVars, diagVars, changeL, lowBandwidth, lowLogs,
                 scrollVars, scriptVars>>

\* the change listener without classList.remove
HandleChangeNeverClears ==
  /\ pendingChange > 0
  /\ pendingChange' = pendingChange - 1
  /\ IF changeL /\ IsLowBandwidth(effectiveType)
     THEN /\ lowBandwidth' = TRUE
          /\ lowLogs' = Bump(lowLogs)
     ELSE UNCHANGED <<lowBandwidth, lowLogs>>
  /\ hit' = {}
  /\ UNCHANGED <<inputVars, readyState, imgVars, headLinks, hoverL, hovers, hintsBy,
                 obsVars, trackVars, diagVars, effectiveType, changeL,
                 scrollVars, scriptVars>>

\* optimize.js 106-116: the change listener, if it is registered, handles a
\* dispatched change event.
HandleChange ==
  /\ pendingChange > 0
  /\ pendingChange' = pendingChange - 1
  /\ IF changeL
     THEN IF IsLowBandwidth(effectiveType)
          THEN /\ lowBandwidth' = TRUE
               /\ lowLogs' = Bump(lowLogs)
          ELSE /\ lowBandwidth' = FALSE
               /\ UNCHANGED lowLogs
     ELSE UNCHANGED <<lowBandwidth, lowLogs>>
  /\ hit' = {}
  /\ UNCHANGED <<inputVars, readyState, imgVars, headLinks, hoverL, hovers, hintsBy,
                 obsVars, trackVars, diagVars, effectiveType, changeL,
                 scrollVars, scriptVars>>

\* the mouseenter listener registered without { once: true }
MouseEnterNotOnce(l) ==
  /\ hovers[l] < MaxHover
  /\ hovers' = IF initRuns > 0 THEN [hovers EXCEPT ![l] = @ + 1] ELSE hovers
  /\ IF l \in hoverL
     THEN /\ headLinks' = Append(headLinks, [rel |-> "prefetch", href |-> href[l]])
          /\ hintsBy' = [hintsBy EXCEPT ![l] = Bump(@)]
          /\ hoverL' = hoverL
     ELSE UNCHANGED <<headLinks, hintsBy, hoverL>>
  /\ hit' = {}
  /\ UNCHANGED <<inputVars, readyState, imgVars, obsVars, trackVars, diagVars, netVars,
                 scrollVars, scriptVars>>

\* optimize.js 131-138: the pointer enters a link; a once-listener is removed
\* when it is invoked.
MouseEnter(l) ==
  /\ hovers[l] < MaxHover
  /\ hovers' = IF initRuns > 0 THEN [hovers EXCEPT ![l] = @ + 1] ELSE hovers
  /\ IF l \in hoverL
     THEN /\ headLinks' = Append(headLinks, [rel |-> "prefetch", href |-> href[l]])
          /\ hintsBy' = [hintsBy EXCEPT ![l] = Bump(@)]
          /\ hoverL' = hoverL \ {l}
     ELSE UNCHANGED <<headLinks, hintsBy, hoverL>>
  /\ hit' = {}
  /\ UNCHANGED <<inputVars, readyState, imgVars, obsVars, trackVars, diagVars, netVars,
                 scrollVars, scriptVars>>

\* the scroll listener without the test of ticking
ScrollUnguarded ==
  /\ scrollL
  /\ rafPending' = Bump(rafPending)
  /\ ticking' = TRUE
  /\ hit' = {}
  /\ UNCHANGED <<inputVars, readyState, imgVars, linkVars, obsVars, trackVars, diagVars,
                 netVars, scrollL, touchL, frameRan, scriptVars>>

\* optimize.js 90-97: the scroll listener
Scroll ==
  /\ scrollL
  /\ IF ~ticking
     THEN /\ rafPending' = Bump(rafPending)
          /\ ticking' = TRUE
     ELSE UNCHANGED <<rafPending, ticking>>
  /\ hit' = {}
  /\ UNCHANGED <<inputVars, readyState, imgVars, linkVars, obsVars, trackVars, diagVars,
                 netVars, scrollL, touchL, frameRan, scriptVars>>

\* the animation-frame callback that also removes the class low-bandwidth
AnimationFrameClearsFlag ==
  /\ rafPending > 0
  /\ rafPending' = rafPending - 1
  /\ ticking' = FALSE
  /\ lowBandwidth' = FALSE
  /\ frameRan' = TRUE
  /\ hit' = {}
  /\ UNCHANGED <<inputVars, readyState, imgVars, linkVars, obsVars, trackVars, diagVars,
                 effectiveType, changeL, pendingChange, lowLogs, scrollL, touchL,
                 scriptVars>>

\* the animation-frame callback without ticking = false
AnimationFrameKeepsTicking ==
  /\ rafPending > 0
  /\ rafPending' = rafPending - 1
  /\ ticking' = ticking
  /\ frameRan' = TRUE
  /\ hit' = {}
  /\ UNCHANGED <<inputVars, readyState, imgVars, linkVars, obsVars, trackVars, diagVars,
                 netVars, scrollL, touchL, scriptVars>>

\* optimize.js 92-94: the browser runs a requested animation-frame callback
AnimationFrame ==
  /\ rafPending > 0
  /\ rafPending' = rafPending - 1
  /\ ticking' = FALSE
  /\ frameRan' = TRUE
  /\ hit' = {}
  /\ UNCHANGED <<inputVars, readyState, imgVars, linkVars, obsVars, trackVars, diagVars,
                 netVars, scrollL, touchL, scriptVars>>

\* optimize.js 85: the empty touchstart listener
TouchStart ==
  /\ touchL
  /\ hit' = {}
  /\ UNCHANGED <<inputVars, readyState, imgVars, linkVars, obsVars, trackVars, diagVars,
                 netVars, scrollVars, scriptVars>>

\* ------------------------------------------------------- the initial page
\* Nothing has run yet: the document is being parsed, the browser has begun
\* to fetch every image that has a src.
InitScript ==
  /\ readyState = "loading"
  /\ fetch = [i \in Imgs |-> IF src[i] = NoAttr THEN "none" ELSE "loading"]
  /\ classes = [i \in Imgs |-> {}]
  /\ headLinks = <<>>
  /\ scriptRan = FALSE
  /\ styleAdded = FALSE
  /\ dclListeners = {}
  /\ observed = {}
  /\ trackL = {}
  /\ sizeL = {}
  /\ winLoadL = FALSE
  /\ largeImages = <<>>
  /\ changeL = FALSE
  /\ pendingChange = 0
  /\ lowBandwidth = FALSE
  /\ hoverL = {}
  /\ scrollL = FALSE
  /\ touchL = FALSE
  /\ ticking = FALSE
  /\ rafPending = 0
  /\ frameRan = FALSE
  /\ aosCalls = <<>>
  /\ warns = [i \in Imgs |-> <<>>]
  /\ lowLogs = 0
  /\ reports = <<>>
  /\ threw = FALSE
  /\ initRuns = 0
  /\ assigns = [i \in Imgs |-> 0]
  /\ loadedAdds = [i \in Imgs |-> 0]
  /\ okAfterReg = [i \in Imgs |-> 0]
  /\ completeAtReg = {}
  /\ hovers = [l \in Links |-> 0]
  /\ hintsBy = [l \in Links |-> 0]
  /\ intersected = {}
  /\ hit = {}

\* a page of plain images, as the site's own pages have them
PlainImages ==
  /\ lazy = [i \in Imgs |-> TRUE]
  /\ src = [i \in Imgs |-> "a.jpg"]
  /\ dataSrc = [i \in Imgs |-> NoAttr]

SmallImages ==
  /\ natural = [u \in RealUrls |-> 4]
  /\ display = [i \in Imgs |-> 2]

PlainLinks == href = [l \in Links |-> "p1.html"]

\* the markup of one image: plain or deferred, with or without
\* loading="lazy", with or without a placeholder src, with an empty marker
ImgMarkups ==
  {[lazy |-> TRUE,  src |-> "a.jpg", dataSrc |-> NoAttr],
   [lazy |-> FALSE, src |-> "a.jpg", dataSrc |-> NoAttr],
   [lazy |-> TRUE,  src |-> NoAttr,  dataSrc |-> "b.webp"],
   [lazy |-> FALSE, src |-> NoAttr,  dataSrc |-> "b.webp"],
   [lazy |-> TRUE,  src |-> "a.jpg", dataSrc |-> "b.webp"],
   [lazy |-> TRUE,  src |-> NoAttr,  dataSrc |-> EmptyStr]}

Page(markup) ==
  /\ lazy = [i \in Imgs |-> markup[i].lazy]
  /\ src = [i \in Imgs |-> markup[i].src]
  /\ dataSrc = [i \in Imgs |-> markup[i].dataSrc]

\* Images: every page of NumImgs images with these markups.
InitImg ==
  /\ hasIO = TRUE
  /\ hasTouch = FALSE
  /\ hasAOS = FALSE
  /\ isMobileUA = FALSE
  /\ effectiveType = NoConnection
  /\ hostname = "example.com"
  /\ \E markup \in [Imgs -> ImgMarkups] : Page(markup)
  /\ SmallImages
  /\ PlainLinks
  /\ InitScript

NextImg ==
  \/ ScriptRun
  \/ DOMContentLoaded
  \/ WindowLoad
  \/ \E i \in Imgs : ImgLoad(i)
  \/ \E i \in Imgs : ImgError(i)
  \/ Deliver

SpecImg == InitImg /\ [][NextImg]_vars

\* Network: with and without navigator.connection, every effective type.
InitNet ==
  /\ hasIO = TRUE
  /\ hasTouch \in BOOLEAN
  /\ hasAOS \in BOOLEAN
  /\ isMobileUA \in BOOLEAN
  /\ effectiveType \in EffectiveTypes \cup {NoConnection}
  /\ hostname \in {"localhost", "example.com"}
  /\ PlainImages
  /\ SmallImages
  /\ PlainLinks
  /\ InitScript

NextNet ==
  \/ ScriptRun
  \/ DOMContentLoaded
  \/ WindowLoad
  \/ ConnChange
  \/ HandleChange

SpecNet == InitNet /\ [][NextNet]_vars

\* Interaction: links to pages and to other targets, with and without touch.
InitUI ==
  /\ hasIO = TRUE
  /\ hasTouch \in BOOLEAN
  /\ hasAOS = FALSE
  /\ isMobileUA = FALSE
  /\ effectiveType = NoConnection
  /\ hostname = "example.com"
  /\ PlainImages
  /\ SmallImages
  /\ href \in [Links -> {"p1.html", "p2.html", "mailto:a@b"}]
  /\ InitScript

NextUI ==
  \/ ScriptRun
  \/ DOMContentLoaded
  \/ WindowLoad
  \/ \E l \in Links : MouseEnter(l)
  \/ Scroll
  \/ AnimationFrame
  \/ TouchStart

SpecUI == InitUI /\ [][NextUI]_vars

\* the browser runs every animation-frame callback it was asked for
SpecUIFair == SpecUI /\ WF_vars(AnimationFrame)

\* Diagnostic: development and public hosts, images larger than needed or not.
DiagMarkups ==
  {[lazy |-> TRUE,  src |-> "a.jpg",  dataSrc |-> NoAttr],
   [lazy |-> FALSE, src |-> "b.webp", dataSrc |-> NoAttr],
   [lazy |-> TRUE,  src |-> NoAttr,   dataSrc |-> "a.jpg"]}

InitDiag ==
  /\ hasIO = TRUE
  /\ hasTouch = FALSE
  /\ hasAOS = FALSE
  /\ isMobileUA = FALSE
  /\ effectiveType = NoConnection
  /\ hostname \in Hostnames
  /\ \E markup \in [Imgs -> DiagMarkups] : Page(markup)
  /\ natural \in [RealUrls -> {4, 5}]
  /\ display = [i \in Imgs |-> 2]
  /\ PlainLinks
  /\ InitScript

NextDiag ==
  \/ ScriptRun
  \/ DOMContentLoaded
  \/ WindowLoad
  \/ \E i \in Imgs : ImgLoad(i)
  \/ \E i \in Imgs : ImgError(i)
  \/ Deliver

SpecDiag == InitDiag /\ [][NextDiag]_vars

\* Images in a browser without IntersectionObserver.
InitNoIO ==
  /\ hasIO = FALSE
  /\ hasTouch = FALSE
  /\ hasAOS = FALSE
  /\ isMobileUA = FALSE
  /\ effectiveType = NoConnection
  /\ hostname = "example.com"
  /\ \E markup \in [Imgs -> ImgMarkups] : Page(markup)
  /\ SmallImages
  /\ PlainLinks
  /\ InitScript

NextNoIO ==
  \/ ScriptRun
  \/ DOMContentLoaded
  \/ WindowLoad
  \/ \E i \in Imgs : ImgLoad(i)
  \/ \E i \in Imgs : ImgError(i)

SpecNoIO == InitNoIO /\ [][NextNoIO]_vars

\* Everything at once: one deferred image with a placeholder among plain ones
\* on a development host, with a connection, touch and AOS; every handler of
\* the script can run (the events are those of the first image and link).
InitAll ==
  /\ hasIO = TRUE
  /\ hasTouch = TRUE
  /\ hasAOS = TRUE
  /\ isMobileUA = FALSE
  /\ effectiveType \in {"2g", "4g"}
  /\ hostname = "localhost"
  /\ lazy = [i \in Imgs |-> TRUE]
  /\ src = [i \in Imgs |-> "a.jpg"]
  /\ dataSrc = [i \in Imgs |-> IF i = 1 THEN "b.webp" ELSE NoAttr]
  /\ SmallImages
  /\ PlainLinks
  /\ InitScript

NextAll ==
  \/ ScriptRun
  \/ DOMContentLoaded
  \/ WindowLoad
  \/ ImgLoad(1)
  \/ ImgError(1)
  \/ Deliver
  \/ ConnChange
  \/ HandleChange
  \/ MouseEnter(1)
  \/ Scroll
  \/ AnimationFrame
  \/ TouchStart

SpecAll == InitAll /\ [][NextAll]_vars

\* ------------------------------------------------- deferred images (C1-C5, C9)
\* the DOM state the observer callback works on
DomState == [src |-> src, dataSrc |-> dataSrc, fetch |-> fetch,
             observed |-> observed, assigns |-> assigns]

\* C1: when the observer delivers an intersecting entry for an image that
\* carries a pending source (a non-empty data-src), the image's src is
\* afterwards the value data-src held just before and the data-src attribute
\* is absent.
C1_ActivationMovesPendingSource ==
  [][\A i \in hit' : Truthy(dataSrc[i]) =>
        (src'[i] = dataSrc[i] /\ dataSrc'[i] = NoAttr)]_vars

C1_Witness ==
  \E i \in Imgs : /\ i \in hit
                  /\ assigns[i] = 1
                  /\ src[i] = "b.webp"
                  /\ dataSrc[i] = NoAttr

\* C2: src is assigned from data-src at most once per image, and handling one
\* more intersecting entry for an activated image leaves the image as it is.
C2_AtMostOneActivation ==
  \A i \in Imgs :
    /\ assigns[i] <= 1
    /\ assigns[i] = 1 =>
         LET again == HandleEntry([target |-> i, isIntersecting |-> TRUE], DomState)
         IN /\ again.src = src
            /\ again.dataSrc = dataSrc
            /\ again.fetch = fetch
            /\ again.assigns = assigns

C2_Witness ==
  \E i \in Imgs : /\ assigns[i] = 1
                  /\ i \in intersected
                  /\ i \notin observed
                  /\ fetch[i] = "ok"

\* C3: after init() a failed image (here one with loading="lazy") has exactly
\* the class error and exactly one warning was logged for it.
C3_FailedImageMarkedError ==
  \A i \in Imgs :
    (initRuns > 0 /\ lazy[i] /\ fetch[i] = "failed") =>
       (classes[i] = {"error"} /\ Len(warns[i]) = 1)

\* C4: of the images progressiveImageLoad tracks, one that is complete when
\* init() looks has the class loaded from then on, added once and without a
\* load event; one that is not complete then has the class added once per
\* load that finishes afterwards and carries it after the first such load.
C4_LoadedNeitherMissedNorRepeated ==
  \A i \in Imgs :
    (initRuns > 0 /\ lazy[i]) =>
       /\ i \in completeAtReg => ("loaded" \in classes[i] /\ loadedAdds[i] = 1)
       /\ i \notin completeAtReg =>
            /\ loadedAdds[i] = okAfterReg[i]
            /\ okAfterReg[i] > 0 => "loaded" \in classes[i]

C4_Witness ==
  \E i, j \in Imgs :
     /\ lazy[i] /\ i \in completeAtReg /\ fetch[i] = "ok" /\ okAfterReg[i] = 0
     /\ "loaded" \in classes[i]
     /\ lazy[j] /\ j \notin completeAtReg /\ okAfterReg[j] = 1
     /\ classes[j] = {"loaded"}

\* C5: every image that is still loading when init() runs, whatever its
\* attributes, has the class loaded once its load has finished and the class
\* error once its fetch has failed.
C5_EveryImageTracked ==
  \A i \in Imgs :
    (initRuns > 0 /\ i \notin completeAtReg) =>
       /\ okAfterReg[i] > 0 => "loaded" \in classes[i]
       /\ fetch[i] = "failed" => "error" \in classes[i]

\* C9: the src and data-src of an image change only in a step that delivers
\* an intersecting entry for that very image.
C9_OnlyIntersectingImageActivated ==
  [][\A i \in Imgs : (src'[i] # src[i] \/ dataSrc'[i] # dataSrc[i]) => i \in hit']_vars

C9_Witness ==
  \E i, j \in Imgs :
     /\ hit = {i} /\ assigns[i] = 1 /\ src[i] = "b.webp"
     /\ j \in observed /\ assigns[j] = 0 /\ src[j] = NoAttr /\ dataSrc[j] = "b.webp"

\* ------------------------------------------------------ network (C6, C7)
\* C6: with a connection object, once init() has run and every dispatched
\* change event has been handled, the body has the class low-bandwidth exactly
\* when the effective type is 2g or slow-2g.
C6_FlagFollowsConnection ==
  (initRuns > 0 /\ effectiveType # NoConnection /\ pendingChange = 0) =>
     (lowBandwidth <=> effectiveType \in {"2g", "slow-2g"})

C6_Witness ==
  /\ initRuns > 0
  /\ pendingChange = 0
  /\ effectiveType = "4g"
  /\ lowLogs > 0
  /\ ~lowBandwidth

\* C7: without a connection object the flag is never set, no change listener
\* is registered, nothing is thrown, and init() installs everything else.
C7_NoConnectionDegrades ==
  effectiveType = NoConnection =>
     /\ ~lowBandwidth
     /\ ~changeL
     /\ ~threw
     /\ scriptRan => styleAdded
     /\ initRuns > 0 =>
          /\ \A i \in Imgs : lazy[i] => (i \in trackL \/ "loaded" \in classes[i])
          /\ scrollL
          /\ touchL = hasTouch
          /\ hoverL = {l \in Links : href[l] \in {"p1.html", "p2.html"}}
          /\ hostname = "localhost" => winLoadL

C7_Witness ==
  /\ effectiveType = NoConnection
  /\ initRuns = 1
  /\ readyState = "complete"
  /\ hostname = "localhost"
  /\ winLoadL
  /\ scrollL

\* ------------------------------------------------------- prefetch (C8)
\* C8: the listener of a link appends at most one prefetch link, however often
\* the pointer enters the link, and a link to a page has exactly one once the
\* pointer has entered it after init().
C8_PrefetchOncePerLink ==
  /\ \A l \in Links :
       /\ hintsBy[l] <= 1
       /\ (hovers[l] >= 1 /\ href[l] \in {"p1.html", "p2.html"}) => hintsBy[l] = 1
  /\ Len(headLinks) = Cardinality({l \in Links : hintsBy[l] >= 1})
  /\ \A k \in 1..Len(headLinks) :
       headLinks[k].rel = "prefetch" /\ \E l \in Links : headLinks[k].href = href[l]

C8_Witness ==
  \E l \in Links : hovers[l] >= 2 /\ hintsBy[l] = 1 /\ Len(headLinks) >= 1

\* ------------------------------------------------------ diagnostic (C10)
\* C10: on a host other than localhost and 127.0.0.1 checkImageSizes registers
\* no listener, records no image and emits no report.
C10_DiagnosticOnlyOnDevHost ==
  hostname \notin {"localhost", "127.0.0.1"} =>
     /\ sizeL = {}
     /\ ~winLoadL
     /\ largeImages = <<>>
     /\ reports = <<>>

C10_Witness ==
  /\ hostname = "example.com"
  /\ initRuns = 1
  /\ readyState = "complete"
  /\ \E i \in Imgs : /\ fetch[i] = "ok"
                     /\ src[i] = "a.jpg"
                     /\ i \notin completeAtReg
                     /\ natural[src[i]] > display[i] * 2

\* --------------------------------------------- no IntersectionObserver (C11)
\* the script has run, the page has loaded and no image is being fetched:
\* without an observer nothing further happens to the images
Settled ==
  /\ scriptRan
  /\ readyState = "complete"
  /\ observed = {}
  /\ \A i \in Imgs : fetch[i] # "loading"

\* C11: without IntersectionObserver nothing is thrown, init() installs the
\* other optimizations, and once the page has settled no image still holds its
\* real URL in data-src instead of src.
C11_ImagesLoadWithoutObserver ==
  hasIO = FALSE =>
     /\ ~threw
     /\ initRuns > 0 => (scrollL /\ hoverL = navLinks)
     /\ Settled => \A i \in Imgs : dataSrc[i] \notin RealUrls

\* ------------------------------------------------ scroll throttle (C12, C13)
\* C12: at most one animation-frame callback of the scroll listener is
\* pending, ticking is true exactly when one is pending, and no step taken
\* while ticking is true adds a pending callback.
C12_OneFramePerScrollBurst ==
  /\ [](rafPending <= 1 /\ (ticking <=> rafPending = 1))
  /\ [][ticking => rafPending' <= rafPending]_vars

C12_Witness == scrollL /\ ticking /\ rafPending = 1 /\ ~frameRan

\* C13: if every requested animation-frame callback eventually runs, ticking
\* never stays true forever, and a scroll event that finds ticking false
\* requests a callback and sets ticking.
C13_GuardReleases ==
  /\ ticking ~> ~ticking
  /\ [][(Scroll /\ ~ticking) => (ticking' /\ rafPending' = rafPending + 1)]_vars

C13_Witness == frameRan /\ ticking /\ rafPending = 1

\* ------------------------------------------------- animations (C14, C15)
\* the step in which AOS.init is called
CallsAOS == Len(aosCalls') > Len(aosCalls)

\* the step in which the DOMContentLoaded listener of optimize.js 37 runs
RunsAOSListener ==
  readyState = "loading" /\ readyState' = "interactive" /\ "aos" \in dclListeners

\* C14 as stated: AOS.init is called with disable: true exactly when the
\* effective type is 2g or slow-2g, the classification of the low-bandwidth
\* flag.
C14_SlowMeans2G ==
  [][CallsAOS =>
       (aosCalls'[Len(aosCalls')].disable <=> effectiveType \in {"2g", "slow-2g"})]_vars

\* C14 amended: AOS.init is called with disable: true exactly when the
\* effective type is slow-2g, 2g or 3g.
C14_SlowMeansUpTo3G ==
  [][CallsAOS =>
       (aosCalls'[Len(aosCalls')].disable <=>
          effectiveType \in {"slow-2g", "2g", "3g"})]_vars

C14_Witness ==
  /\ aosCalls # <<>>
  /\ aosCalls[1].disable
  /\ effectiveType = "3g"
  /\ initRuns = 1
  /\ pendingChange = 0
  /\ ~lowBandwidth

\* C15: AOS.init is called at most once, only with duration 600 and once:
\* true, never without window.AOS and nothing is thrown; when the listener
\* runs, it calls AOS.init exactly if AOS is present and the device is mobile
\* or the effective type is slow-2g, 2g or 3g.
C15_AOSParameters ==
  /\ [](/\ Len(aosCalls) <= 1
        /\ ~hasAOS => aosCalls = <<>>
        /\ ~threw
        /\ \A k \in 1..Len(aosCalls) : aosCalls[k].duration = 600 /\ aosCalls[k].once)
  /\ [][RunsAOSListener =>
          (CallsAOS <=> (hasAOS /\ (isMobileUA \/
                           effectiveType \in {"slow-2g", "2g", "3g"})))]_vars
  /\ [][CallsAOS => RunsAOSListener]_vars

C15_Witness ==
  /\ hasAOS
  /\ ~isMobileUA
  /\ effectiveType = NoConnection
  /\ "init" \in dclListeners
  /\ readyState = "complete"
  /\ aosCalls = <<>>

\* ------------------------------------------- the low-bandwidth flag (C16)
\* C16: the class low-bandwidth changes only in a step that runs init() or
\* handles a connection change event; every other handler leaves it as it is.
C16_FlagWrittenByNetworkCodeOnly ==
  [][lowBandwidth' # lowBandwidth =>
       (initRuns' # initRuns \/ pendingChange' < pendingChange)]_vars

C16_Witness ==
  /\ lowBandwidth
  /\ lowLogs > 0
  /\ readyState = "complete"
  /\ frameRan
  /\ hintsBy[1] = 1
  /\ intersected = {1}
  /\ classes[1] = {"loaded", "error"}

\* ------------------------------------------------- observation (C17)
\* C17: images enter the observed set only in the one DOMContentLoaded step;
\* a callback run that handles an intersecting entry for an image leaves the
\* image unobserved; and no image is both observed and activated.
C17_UnobservedOnActivation ==
  /\ [](\A i \in Imgs : (i \in intersected \/ assigns[i] >= 1) => i \notin observed)
  /\ [][\A i \in hit' : i \notin observed']_vars
  /\ [][observed' \ observed # {} =>
          (readyState = "loading" /\ readyState' = "interactive")]_vars

C17_Witness ==
  \E i, j \in Imgs :
     /\ assigns[i] = 1 /\ i \in intersected /\ i \notin observed /\ fetch[i] = "loading"
     /\ j \in observed /\ j \notin intersected /\ dataSrc[j] = EmptyStr

\* ------------------------------------------- the oversized-image report (C18)
\* the image has loaded and its natural size exceeds twice its display size
Oversized(i) ==
  src[i] \in RealUrls /\ fetch[i] = "ok" /\ natural[src[i]] > display[i] * 2

\* an emitted report lists the image's source
Reported(i) ==
  \E r \in 1..Len(reports) : \E k \in 1..Len(reports[r]) : reports[r][k].src = src[i]

\* C18: on a development host at most one report is emitted, only when the
\* page has loaded, and once the script has run and the page has loaded every
\* loaded image (here: every .png or .jpg image) larger than twice its display
\* size is listed in it.
C18_ReportOnceAndComplete ==
  hostname \in {"localhost", "127.0.0.1"} =>
     /\ Len(reports) <= 1
     /\ reports # <<>> => readyState = "complete"
     /\ (scriptRan /\ readyState = "complete") =>
          \A i \in Imgs : (Oversized(i) /\ HasPngOrJpg(src[i])) => Reported(i)

\* --------------------------------------------- the injected stylesheet (C19)
\* the rules of the injected stylesheet that select images, in source order:
\* 1 img, 2 img[loading="lazy"]:not(.loaded), 3 img.loaded, 4 img.error
StyleRules == 1..4

\* the rule's selector matches an image with this loading attribute and classes
Matches(r, isLazy, cls) ==
  CASE r = 1 -> TRUE
    [] r = 2 -> isLazy /\ "loaded" \notin cls
    [] r = 3 -> "loaded" \in cls
    [] r = 4 -> "error" \in cls

\* selector specificity (ids, classes and attributes, elements) as one number;
\* :not() counts as its argument
Specificity(r) ==
  CASE r = 1 -> 1
    [] r = 2 -> 21
    [] r = 3 -> 11
    [] r = 4 -> 11

\* the value a rule declares for a property, NoAttr when it declares none
Declares(r, prop) ==
  CASE r = 2 /\ prop = "opacity" -> "0"
    [] r = 3 /\ prop = "opacity" -> "1"
    [] r = 4 /\ prop = "opacity" -> "0.5"
    [] r = 4 /\ prop = "filter" -> "grayscale(100%)"
    [] OTHER -> NoAttr

InitialValue(prop) == IF prop = "opacity" THEN "1" ELSE "none"

\* the cascade: among the matching rules that declare the property the one
\* with the highest specificity wins, the later one on a tie
Computed(prop, isLazy, cls) ==
  LET cand == {r \in StyleRules : Matches(r, isLazy, cls) /\ Declares(r, prop) # NoAttr}
  IN  IF cand = {} THEN InitialValue(prop)
      ELSE Declares(CHOOSE r \in cand : \A q \in cand :
                       \/ Specificity(q) < Specificity(r)
                       \/ Specificity(q) = Specificity(r) /\ q <= r, prop)

\* C19: once the stylesheet is injected, a lazy image with class error and
\* without class loaded renders at opacity 0.5 and desaturated, a lazy image
\* with class loaded only at opacity 1, and a lazy image with neither class
\* at opacity 0.
C19_ThreeVisualStates ==
  styleAdded => \A i \in Imgs : lazy[i] =>
     /\ ("error" \in classes[i] /\ "loaded" \notin classes[i]) =>
           /\ Computed("opacity", lazy[i], classes[i]) = "0.5"
           /\ Computed("filter", lazy[i], classes[i]) = "grayscale(100%)"
     /\ classes[i] = {"loaded"} => Computed("opacity", lazy[i], classes[i]) = "1"
     /\ classes[i] = {} => Computed("opacity", lazy[i], classes[i]) = "0"

\* ------------------------------------------- script timing (C20)
\* C20: whatever the ready state was when the script started, once the page
\* has loaded init() has run exactly once and every image that carries
\* data-src is registered with imageObserver (or its entry was already handled).
C20_RegisteredWheneverScriptRuns ==
  (scriptRan /\ readyState = "complete") =>
     /\ ~threw => initRuns = 1
     /\ hasIO => \A i \in Imgs :
          dataSrc[i] # NoAttr => (i \in observed \/ i \in intersected)

\* ------------------------------------------- the loaded state (C21)
\* C21: an image carries the class loaded only if its real source has been
\* fetched successfully: no source is still pending in data-src and the fetch
\* of its current src has succeeded.
C21_LoadedOnlyAfterRealLoad ==
  \A i \in Imgs :
    "loaded" \in classes[i] => (dataSrc[i] \notin RealUrls /\ fetch[i] = "ok")

====
